---- MODULE Spec2Model ----
(***************************************************************************)
(* anydir: one interface over a directory embedded at build time (CtDir)   *)
(* and a directory read from the filesystem at run time (RtDir).           *)
(*                                                                         *)
(* A path is the sequence of its components, which is how std::path        *)
(* compares, joins and strips paths ("/" is the root component).  A file's *)
(* content is a sequence of bytes; a String is a sequence of code points.  *)
(* The filesystem is seen through stat(): the kind of a node is what the   *)
(* path resolves to ("file", "dir", "other" for anything that is neither,  *)
(* "absent").                                                              *)
(***************************************************************************)
EXTENDS Integers, Sequences, FiniteSets, TLC

\* ---- bounds ----
MaxBytes == 2           \* longest file content that is written
MaxComps == 3           \* most components after the root in a from_path input

ByteAlphabet == {65, 195, 169}      \* 'A', lead byte of U+00E9, its continuation byte
Contents == UNION {[1..n -> ByteAlphabet] : n \in 0..MaxBytes}
FixedBytes == <<65>>                \* content of the files other than a.txt
NewContents == {<<65>>, <<169>>}    \* what a.txt is overwritten with after the build

\* ---- the directory tree the build embeds and RtDir points at ----
Base == <<"/", "assets">>
FileA == <<"/", "assets", "a.txt">>
FileB == <<"/", "assets", "b.bin">>
SubDir == <<"/", "assets", "sub">>
FileC == <<"/", "assets", "sub", "c.txt">>
Missing == <<"/", "missing">>
DiskPaths == {Base, FileA, FileB, SubDir, FileC}
RtBases == {Base, <<"assets">>, SubDir, FileA, Missing}
NameOrder == <<"a.txt", "b.bin", "c.txt", "sub">>

Node(k, b, r) == [kind |-> k, bytes |-> b, readable |-> r]
Absent == Node("absent", <<>>, FALSE)
DirNode == Node("dir", <<>>, TRUE)
LockedDir == Node("dir", <<>>, FALSE)
Other == Node("other", <<>>, FALSE)
FileNode(b) == Node("file", b, TRUE)

VARIABLES disk, built, dir, cwd, entry, stale, ct_calls, ret
vars == <<disk, built, dir, cwd, entry, stale, ct_calls, ret>>

IsAbsolute(p) == p # <<>> /\ Head(p) = "/"

\* the operating system resolves a relative path against the current directory
Resolve(p) ==
    IF IsAbsolute(p) THEN p
    ELSE IF cwd.some /\ p # <<>> THEN cwd.val \o p
    ELSE <<>>

NodeAt(d, p) == IF Resolve(p) \in DOMAIN d THEN d[Resolve(p)] ELSE Absent
Parent(p) == SubSeq(p, 1, Len(p) - 1)
Last(p) == p[Len(p)]

\* ---- std::path ----
\* Path::starts_with / strip_prefix compare whole components
starts_with(p, base) ==
    /\ Len(base) <= Len(p)
    /\ SubSeq(p, 1, Len(base)) = base

\* strip_prefix that leaves the last component of the base in place
strip_prefix_OffByOne(p, base) ==
    IF starts_with(p, base)
    THEN [ok |-> TRUE, val |-> SubSeq(p, Len(base), Len(p))]
    ELSE [ok |-> FALSE, val |-> <<>>]

strip_prefix(p, base) ==
    IF starts_with(p, base)
    THEN [ok |-> TRUE, val |-> SubSeq(p, Len(base) + 1, Len(p))]
    ELSE [ok |-> FALSE, val |-> <<>>]

unwrap_or(r, dflt) == IF r.ok THEN r.val ELSE dflt

\* Path::join: an absolute right-hand side replaces the left-hand side
join(base, p) == IF IsAbsolute(p) THEN p ELSE base \o p

\* ---- UTF-8, as core::str::from_utf8 validates it and String stores it ----
\* a decoder that takes every byte above 0x7F that is no lead byte for a character
Utf8Width_Latin1(b) ==
    IF b < 128 THEN 1
    ELSE IF b >= 194 /\ b <= 223 THEN 2
    ELSE IF b >= 224 /\ b <= 239 THEN 3
    ELSE IF b >= 240 /\ b <= 244 THEN 4
    ELSE 1

Utf8Width(b) ==
    IF b < 128 THEN 1
    ELSE IF b >= 194 /\ b <= 223 THEN 2
    ELSE IF b >= 224 /\ b <= 239 THEN 3
    ELSE IF b >= 240 /\ b <= 244 THEN 4
    ELSE 0

IsCont(b) == b >= 128 /\ b <= 191

Utf8ValidSeq(bs, w) ==
    CASE w = 1 -> TRUE
      [] w = 2 -> IsCont(bs[2])
      [] w = 3 -> /\ IsCont(bs[2]) /\ IsCont(bs[3])
                  /\ (bs[1] = 224 => bs[2] >= 160)
                  /\ (bs[1] = 237 => bs[2] <= 159)
      [] w = 4 -> /\ IsCont(bs[2]) /\ IsCont(bs[3]) /\ IsCont(bs[4])
                  /\ (bs[1] = 240 => bs[2] >= 144)
                  /\ (bs[1] = 244 => bs[2] <= 143)

Utf8CodePoint(bs, w) ==
    CASE w = 1 -> bs[1]
      [] w = 2 -> (bs[1] - 192) * 64 + (bs[2] - 128)
      [] w = 3 -> (bs[1] - 224) * 4096 + (bs[2] - 128) * 64 + (bs[3] - 128)
      [] w = 4 -> (bs[1] - 240) * 262144 + (bs[2] - 128) * 4096
                      + (bs[3] - 128) * 64 + (bs[4] - 128)

Utf8Error == [ok |-> FALSE, text |-> <<>>]

RECURSIVE from_utf8(_)
from_utf8(bs) ==
    IF bs = <<>> THEN [ok |-> TRUE, text |-> <<>>]
    ELSE LET w == Utf8Width(bs[1]) IN
         IF w = 0 \/ Len(bs) < w THEN Utf8Error
         ELSE IF ~Utf8ValidSeq(bs, w) THEN Utf8Error
         ELSE LET rest == from_utf8(SubSeq(bs, w + 1, Len(bs))) IN
              IF rest.ok
              THEN [ok |-> TRUE, text |-> <<Utf8CodePoint(bs, w)>> \o rest.text]
              ELSE Utf8Error

\* the bytes a String holds (String::as_bytes)
encode_utf8(c) ==
    IF c < 128 THEN <<c>>
    ELSE IF c < 2048 THEN <<192 + (c \div 64), 128 + (c % 64)>>
    ELSE IF c < 65536
         THEN <<224 + (c \div 4096), 128 + ((c \div 64) % 64), 128 + (c % 64)>>
    ELSE <<240 + (c \div 262144), 128 + ((c \div 4096) % 64),
           128 + ((c \div 64) % 64), 128 + (c % 64)>>

RECURSIVE as_bytes(_)
as_bytes(text) ==
    IF text = <<>> THEN <<>> ELSE encode_utf8(Head(text)) \o as_bytes(Tail(text))

\* ---- results of the read operations ----
OkBytes(b) == [ok |-> TRUE, err |-> "none", bytes |-> b, text |-> <<>>]
OkString(t) == [ok |-> TRUE, err |-> "none", bytes |-> <<>>, text |-> t]
IoErr(k) == [ok |-> FALSE, err |-> k, bytes |-> <<>>, text |-> <<>>]
InvalidData == IoErr("InvalidData")

\* ---- std::fs ----
\* exists() in the place of is_file()
is_file_Exists(d, p) == NodeAt(d, p).kind # "absent"
is_file(d, p) == NodeAt(d, p).kind = "file"
is_dir(d, p) == NodeAt(d, p).kind = "dir"

OsError(n) ==
    CASE n.kind = "absent" -> "NotFound"
      [] n.kind = "dir" -> "IsADirectory"
      [] n.kind = "other" -> "NotFound"
      [] OTHER -> "PermissionDenied"

fs_read(d, p) ==
    LET n == NodeAt(d, p) IN
    IF n.kind = "file" /\ n.readable THEN OkBytes(n.bytes) ELSE IoErr(OsError(n))

fs_read_to_string(d, p) ==
    LET r == fs_read(d, p) IN
    IF ~r.ok THEN r
    ELSE LET s == from_utf8(r.bytes) IN
         IF s.ok THEN OkString(s.text) ELSE InvalidData

Children(d, p) ==
    {q \in DOMAIN d : Parent(q) = Resolve(p) /\ d[q].kind # "absent"}

\* the names of the children of directory p, in the order of NameOrder
SortedNames(d, p) ==
    SelectSeq(NameOrder, LAMBDA n : join(p, <<n>>) \in Children(d, p))

Perms(S) ==
    {s \in [1..Cardinality(S) -> S] : \A i, j \in DOMAIN s : i # j => s[i] # s[j]}

\* a directory read that does not fail on a directory without read permission
read_dir_IgnorePerm(d, p) ==
    IF NodeAt(d, p).kind = "dir"
    THEN {[ok |-> TRUE, list |-> s] :
            s \in Perms({join(p, <<Last(q)>>) : q \in Children(d, p)})}
    ELSE {[ok |-> FALSE, list |-> <<>>]}

\* fs::read_dir: every outcome the directory read can have.  Each DirEntry's
\* path() is the directory's path joined with the child's file name; the
\* order of the children is not specified.
read_dir(d, p) ==
    LET n == NodeAt(d, p) IN
    IF n.kind = "dir" /\ n.readable
    THEN {[ok |-> TRUE, list |-> s] :
            s \in Perms({join(p, <<Last(q)>>) : q \in Children(d, p)})}
    ELSE {[ok |-> FALSE, list |-> <<>>]}

\* ---- include_dir: the tree embedded at build time ----
EmbFile(path, contents) ==
    [kind |-> "file", path |-> path, contents |-> contents, entries |-> <<>>]
EmbDir(path, entries) ==
    [kind |-> "dir", path |-> path, contents |-> <<>>, entries |-> entries]
BuildError == [kind |-> "error", path |-> <<>>, contents |-> <<>>, entries |-> <<>>]

\* include_dir!() walks the directory recursively, children sorted by path;
\* every path is relative to the embedded root
RECURSIVE include_dir_entries(_, _, _)
include_dir_entries(d, root, p) ==
    LET names == SortedNames(d, p) IN
    [i \in 1..Len(names) |->
        LET q == join(p, <<names[i]>>)
            rel == unwrap_or(strip_prefix(q, root), q)
        IN IF is_dir(d, q)
           THEN EmbDir(rel, include_dir_entries(d, root, q))
           ELSE EmbFile(rel, NodeAt(d, q).bytes)]

\* the build fails on an unreadable node and on one that is neither file nor directory
Buildable(d, root) ==
    /\ is_dir(d, root)
    /\ \A q \in DOMAIN d :
          starts_with(q, root) /\ d[q].kind # "absent"
              => d[q].kind \in {"file", "dir"} /\ d[q].readable

embed_dir(d, root) ==
    IF Buildable(d, root) THEN EmbDir(<<>>, include_dir_entries(d, root, root))
    ELSE BuildError

\* files() that descends into the subdirectories
RECURSIVE files_Recursive(_)
files_Recursive(emb) ==
    LET sub(i) == IF emb.entries[i].kind = "file" THEN <<emb.entries[i]>>
                  ELSE files_Recursive(emb.entries[i])
        cat[i \in 0..Len(emb.entries)] == IF i = 0 THEN <<>> ELSE cat[i - 1] \o sub(i)
    IN cat[Len(emb.entries)]

\* Dir::files(): the files that are immediate entries of this Dir
files(emb) == SelectSeq(emb.entries, LAMBDA x : x.kind = "file")

\* ---- file entries ----
None == [some |-> FALSE, val |-> <<>>]
Some(v) == [some |-> TRUE, val |-> v]
NoFile == EmbFile(<<>>, <<>>)

CtFileEntry(relative_path, file) ==
    [tag |-> "Ct", relative_path |-> relative_path, absolute_path |-> <<>>, file |-> file]
RtFileEntry(absolute_path, relative_path) ==
    [tag |-> "Rt", relative_path |-> relative_path, absolute_path |-> absolute_path,
     file |-> NoFile]
NoEntry == [tag |-> "none", relative_path |-> <<>>, absolute_path |-> <<>>, file |-> NoFile]

CtFileEntry_path(e) == e.relative_path
CtFileEntry_absolute_path(e) == None
\* a compile-time entry that reads the original file from the disk
CtFileEntry_read_bytes_FromDisk(e) == fs_read(disk, Base \o e.relative_path)
CtFileEntry_read_bytes(e) == OkBytes(e.file.contents)
CtFileEntry_read_string(e) ==
    LET s == from_utf8(e.file.contents) IN
    IF s.ok THEN OkString(s.text) ELSE InvalidData

RtFileEntry_path(e) == e.relative_path
RtFileEntry_absolute_path(e) == Some(e.absolute_path)
\* a runtime entry that serves the content of build time
RtFileEntry_read_bytes_Cached(e, d) == fs_read(built, e.absolute_path)
RtFileEntry_read_bytes(e, d) == fs_read(d, e.absolute_path)
RtFileEntry_read_string(e, d) == fs_read_to_string(d, e.absolute_path)

\* AnyFileEntry forwards to the wrapped variant
AnyFileEntry_path(e) == IF e.tag = "Ct" THEN CtFileEntry_path(e) ELSE RtFileEntry_path(e)
AnyFileEntry_absolute_path(e) ==
    IF e.tag = "Ct" THEN CtFileEntry_absolute_path(e) ELSE RtFileEntry_absolute_path(e)
AnyFileEntry_read_bytes(e, d) ==
    IF e.tag = "Ct" THEN CtFileEntry_read_bytes(e) ELSE RtFileEntry_read_bytes(e, d)
AnyFileEntry_read_string(e, d) ==
    IF e.tag = "Ct" THEN CtFileEntry_read_string(e) ELSE RtFileEntry_read_string(e, d)

\* ---- directories ----
CtDir_file_entries(emb) ==
    LET fs == files(emb) IN
    [i \in 1..Len(fs) |-> CtFileEntry(fs[i].path, fs[i])]

\* the closure without the is_file test
RtDir_filter_map_NoFileCheck(absolute_path, base_dir, d) ==
    <<RtFileEntry(absolute_path,
                  unwrap_or(strip_prefix(absolute_path, base_dir), absolute_path))>>

\* the closure of filter_map, for one DirEntry path
RtDir_filter_map(absolute_path, base_dir, d) ==
    IF is_file(d, absolute_path)
    THEN <<RtFileEntry(absolute_path,
                       unwrap_or(strip_prefix(absolute_path, base_dir), absolute_path))>>
    ELSE <<>>

RECURSIVE RtDir_collect(_, _, _)
RtDir_collect(list, base_dir, d) ==
    IF list = <<>> THEN <<>>
    ELSE RtDir_filter_map(Head(list), base_dir, d) \o RtDir_collect(Tail(list), base_dir, d)

Warning(base_dir) == <<"Warning: Could not read directory: ", base_dir>>

\* entries is the outcome of fs::read_dir(base_dir)
RtDir_file_entries(base_dir, entries, d) ==
    IF entries.ok
    THEN [val |-> RtDir_collect(entries.list, base_dir, d), stderr |-> <<>>]
    ELSE [val |-> <<>>, stderr |-> <<Warning(base_dir)>>]

\* from_path that never strips the current directory
RtFileEntry_from_path_NoStrip(absolute_path, c) ==
    IF ~c.some THEN [ok |-> FALSE, err |-> "NotFound", entry |-> NoEntry]
    ELSE [ok |-> TRUE, err |-> "none", entry |-> RtFileEntry(absolute_path, absolute_path)]

\* RtFileEntry::from_path; c is the outcome of std::env::current_dir()
RtFileEntry_from_path(absolute_path, c) ==
    IF ~c.some THEN [ok |-> FALSE, err |-> "NotFound", entry |-> NoEntry]
    ELSE [ok |-> TRUE, err |-> "none",
          entry |-> RtFileEntry(absolute_path,
                                unwrap_or(strip_prefix(absolute_path, c.val), absolute_path))]

AnyFileEntry_from_path(p, c) == RtFileEntry_from_path(p, c)

\* ---- the state ----
\* disk     the filesystem: node of every path of DiskPaths
\* built    the filesystem as it was when the build ran
\* dir      CtDir.dir, the static tree embedded by the build
\* cwd      the process's current directory, None when it cannot be obtained
\* entry    the file entry the caller holds
\* stale    the disk has changed since the caller took the entry
\* ct_calls what the last two CtDir::file_entries calls returned
\* ret      the operation that was last called and what it returned / printed
Ret(op, base, val, res, stderr) ==
    [op |-> op, base |-> base, val |-> val, res |-> res, stderr |-> stderr]
NoRes == IoErr("none")
NoRet == Ret("none", <<>>, <<>>, NoRes, <<>>)

\* the trees the build is run on: a.txt with any content, b.bin, and sub/c.txt
\* present or not
BuildTrees ==
    {[p \in DiskPaths |->
        CASE p = Base -> DirNode
          [] p = FileA -> FileNode(c)
          [] p = FileB -> FileNode(FixedBytes)
          [] p = SubDir -> IF s THEN DirNode ELSE Absent
          [] OTHER -> IF s THEN FileNode(FixedBytes) ELSE Absent] :
     c \in Contents, s \in BOOLEAN}

Init ==
    /\ disk \in BuildTrees
    /\ built = disk
    /\ dir = embed_dir(disk, Base)
    /\ cwd = Some(<<"/">>)
    /\ entry = NoEntry
    /\ stale = FALSE
    /\ ct_calls = <<>>
    /\ ret = NoRet

\* ---- the caller's operations ----
CtFileEntries ==
    LET v == CtDir_file_entries(dir) IN
    /\ ret' = Ret("ct_file_entries", <<>>, v, NoRes, <<>>)
    /\ ct_calls' = IF ct_calls = <<>> THEN <<v>> ELSE <<ct_calls[Len(ct_calls)], v>>
    /\ UNCHANGED <<disk, built, dir, cwd, entry, stale>>

RtFileEntries(base_dir) ==
    \E entries \in read_dir(disk, base_dir) :
        LET r == RtDir_file_entries(base_dir, entries, disk) IN
        /\ ret' = Ret("rt_file_entries", base_dir, r.val, NoRes, r.stderr)
        /\ UNCHANGED <<disk, built, dir, cwd, entry, stale, ct_calls>>

\* the caller keeps one entry of the sequence it was returned
Hold(i) ==
    /\ ret.op \in {"ct_file_entries", "rt_file_entries"}
    /\ i \in DOMAIN ret.val
    /\ entry' = ret.val[i]
    /\ stale' = FALSE
    /\ UNCHANGED <<disk, built, dir, cwd, ct_calls, ret>>

ReadBytes ==
    /\ entry # NoEntry
    /\ ret' = Ret("read_bytes", <<>>, <<>>, AnyFileEntry_read_bytes(entry, disk), <<>>)
    /\ UNCHANGED <<disk, built, dir, cwd, entry, stale, ct_calls>>

ReadString ==
    /\ entry # NoEntry
    /\ ret' = Ret("read_string", <<>>, <<>>, AnyFileEntry_read_string(entry, disk), <<>>)
    /\ UNCHANGED <<disk, built, dir, cwd, entry, stale, ct_calls>>

\* ---- the filesystem changing after the build ----
ContentsFor(p) == IF p = FileA THEN NewContents ELSE {FixedBytes}

Changed(d) ==
    /\ disk' = d
    /\ stale' = (entry # NoEntry)
    /\ ret' = NoRet
    /\ UNCHANGED <<built, dir, cwd, entry, ct_calls>>

WriteFile(p, c) ==
    /\ is_dir(disk, Parent(p))
    /\ disk[p].kind \in {"absent", "file"}
    /\ disk[p] # FileNode(c)
    /\ Changed([disk EXCEPT ![p] = FileNode(c)])

Remove(p) ==
    /\ disk[p].kind # "absent"
    /\ Children(disk, p) = {}
    /\ Changed([disk EXCEPT ![p] = Absent])

Mkdir(p) ==
    /\ disk[p].kind = "absent"
    /\ Changed([disk EXCEPT ![p] = DirNode])

\* a node that is neither a regular file nor a directory appears at p
Mknod(p) ==
    /\ disk[p].kind = "absent"
    /\ Changed([disk EXCEPT ![p] = Other])

Chmod(p) ==
    /\ disk[p].kind = "dir"
    /\ Changed([disk EXCEPT ![p] = IF disk[p].readable THEN LockedDir ELSE DirNode])

Next ==
    \/ CtFileEntries
    \/ \E b \in RtBases : RtFileEntries(b)
    \/ \E i \in DOMAIN ret.val : Hold(i)
    \/ ReadBytes
    \/ ReadString
    \/ \E p \in {FileA, FileB, FileC} : \E c \in ContentsFor(p) : WriteFile(p, c)
    \/ \E p \in {FileA, FileB, FileC, SubDir} : Remove(p)
    \/ Mkdir(SubDir)
    \/ Mknod(FileA)
    \/ Chmod(Base)

Spec == Init /\ [][Next]_vars

\* ---- constructing an entry from a path ----
PathNames == {"assets", "a.txt", "u"}
RelPaths == UNION {[1..n -> PathNames] : n \in 0..MaxComps}
AbsPaths == {<<"/">> \o p : p \in RelPaths}
PathInputs == RelPaths \cup AbsPaths

FromPath(p) ==
    LET r == AnyFileEntry_from_path(p, cwd) IN
    /\ ret' = Ret("from_path", p, IF r.ok THEN <<r.entry>> ELSE <<>>, IoErr(r.err), <<>>)
    /\ UNCHANGED <<disk, built, dir, cwd, entry, stale, ct_calls>>

\* the process changes its directory, or its directory is removed under it
Chdir(c) ==
    /\ cwd # c
    /\ cwd' = c
    /\ ret' = NoRet
    /\ UNCHANGED <<disk, built, dir, entry, stale, ct_calls>>

InitPath ==
    /\ disk \in {d \in BuildTrees : d[FileA] = FileNode(FixedBytes) /\ d[FileC].kind = "file"}
    /\ built = disk
    /\ dir = embed_dir(disk, Base)
    /\ cwd \in {Some(c) : c \in AbsPaths}
    /\ entry = NoEntry
    /\ stale = FALSE
    /\ ct_calls = <<>>
    /\ ret = NoRet

NextPath ==
    \/ \E p \in PathInputs : FromPath(p)
    \/ \E c \in {Some(a) : a \in AbsPaths} \cup {None} : Chdir(c)

SpecPath == InitPath /\ [][NextPath]_vars

\* ---- properties ----
RtCalled == ret.op = "rt_file_entries"
BaseNode == NodeAt(disk, ret.base)
FileChildren(b) == {q \in Children(disk, b) : disk[q].kind = "file"}
Elems(seq) == {seq[i] : i \in DOMAIN seq}

\* C1: RtDir::file_entries on a base path that does not exist, is not a
\* directory or cannot be read returns the empty sequence; the only trace of
\* the failure is the warning line on stderr.
C1_UnreadableBaseIsEmpty ==
    RtCalled /\ (BaseNode.kind # "dir" \/ ~BaseNode.readable)
        => ret.val = <<>> /\ ret.stderr = <<Warning(ret.base)>>

\* a directory with files in it has lost its read permission and was enumerated
C1_Witness ==
    /\ RtCalled
    /\ BaseNode.kind = "dir" /\ ~BaseNode.readable
    /\ FileChildren(ret.base) # {}
    /\ ret.val = <<>>

\* C2: every element RtDir::file_entries returns is an immediate child of
\* the base directory that is a regular file when the call is made; when the
\* base has no regular-file child the result is empty.
C2_OnlyRegularFileChildren ==
    RtCalled =>
        /\ \A e \in Elems(ret.val) :
              /\ e.tag = "Rt"
              /\ Resolve(e.absolute_path) \in FileChildren(ret.base)
        /\ (FileChildren(ret.base) = {} => ret.val = <<>>)

\* the base holds a regular file, a subdirectory with a file in it and a
\* node that is neither; one entry came back
C2_Witness ==
    /\ RtCalled /\ ret.base = Base
    /\ disk[FileA].kind = "other" /\ disk[FileB].kind = "file"
    /\ disk[SubDir].kind = "dir" /\ disk[FileC].kind = "file"
    /\ Len(ret.val) = 1

\* C8: for every entry RtDir::file_entries returns for base path B,
\* absolute_path() is the path the directory read reported for that child,
\* B joined with path() is absolute_path(), and path() is absolute_path()
\* without the prefix B.
C8_BaseJoinPathIsAbsolutePath ==
    RtCalled =>
        \A e \in Elems(ret.val) :
            LET a == AnyFileEntry_absolute_path(e) IN
            /\ a.some
            /\ \E q \in Children(disk, ret.base) : a.val = ret.base \o <<Last(q)>>
            /\ join(ret.base, AnyFileEntry_path(e)) = a.val
            /\ ret.base \o AnyFileEntry_path(e) = a.val

\* a relative base path was enumerated and returned two entries
C8_Witness ==
    /\ RtCalled /\ ret.base = <<"assets">>
    /\ Len(ret.val) = 2

CtCalled == ret.op = "ct_file_entries"
IsScalarValue(c) == c >= 0 /\ c <= 1114111 /\ ~(c >= 55296 /\ c <= 57343)
\* the bytes are the UTF-8 encoding of the text, a sequence of Unicode scalar values
IsTextOf(text, bytes) ==
    /\ \A i \in DOMAIN text : IsScalarValue(text[i])
    /\ as_bytes(text) = bytes
IsIoError(r) == ~r.ok /\ r.err \notin {"none", "InvalidData"}

\* the two outcomes of read_string the claim allows, for the held entry
TextOfBytes(r, b) == r.ok /\ b.ok /\ IsTextOf(r.text, b.bytes)
InvalidButReadable(r, b) == ~r.ok /\ r.err = "InvalidData" /\ b.ok

\* C3: read_string of the held entry either returns the text whose bytes
\* are those read_bytes returns, or fails with "invalid data" while read_bytes
\* succeeds; there is no other outcome.
C3_Original ==
    ret.op = "read_string" =>
        LET b == AnyFileEntry_read_bytes(entry, disk) IN
        TextOfBytes(ret.res, b) \/ InvalidButReadable(ret.res, b)

\* C3 (amended): as above for a CtFileEntry; for an RtFileEntry there is a
\* third outcome, the I/O error of the filesystem read, and then read_bytes
\* fails with the same error.
C3_ReadStringOutcomes ==
    ret.op = "read_string" =>
        LET b == AnyFileEntry_read_bytes(entry, disk) IN
        \/ TextOfBytes(ret.res, b)
        \/ InvalidButReadable(ret.res, b)
        \/ entry.tag = "Rt" /\ IsIoError(ret.res) /\ b = ret.res

\* the file of a runtime entry was removed after the entry was taken, and
\* read_string returned the error of the read
C3_Witness ==
    /\ ret.op = "read_string"
    /\ entry.tag = "Rt" /\ stale
    /\ ret.res.err = "NotFound"

\* the other two outcomes: a text of one two-byte character, and invalid
\* data from an embedded file
C3_SeenText == ret.op = "read_string" /\ ret.res.ok /\ ret.res.text = <<233>>
C3_SeenInvalid == ret.op = "read_string" /\ entry.tag = "Ct" /\ ret.res.err = "InvalidData"

RECURSIVE AllFiles(_)
AllFiles(entries) ==
    UNION {IF x.kind = "file" THEN {x} ELSE AllFiles(x.entries) : x \in Elems(entries)}

EntriesOf(f) == {i \in DOMAIN ret.val : ret.val[i].file = f}

\* C4 as stated: one CtFileEntry for every file of the embedded tree, the
\* files of its subdirectories included.
C4_Original ==
    CtCalled =>
        /\ \A f \in AllFiles(dir.entries) : Cardinality(EntriesOf(f)) = 1
        /\ \A e \in Elems(ret.val) : e.file \in AllFiles(dir.entries)

\* C4 (amended): CtDir::file_entries yields exactly one CtFileEntry for each
\* file that was an immediate child of the embedded directory when the build
\* ran, and nothing else, in the order of the embedded tree's entries; the
\* path of each entry is the file's path below the embedded root.
C4_ExactlyTheImmediateFiles ==
    CtCalled =>
        /\ \A q \in DOMAIN built :
              Parent(q) = Base /\ built[q].kind = "file"
                  => \E i \in DOMAIN ret.val :
                        /\ Base \o AnyFileEntry_path(ret.val[i]) = q
                        /\ \A j \in DOMAIN ret.val :
                              AnyFileEntry_path(ret.val[j]) = AnyFileEntry_path(ret.val[i])
                                  => j = i
        /\ \A e \in Elems(ret.val) :
              /\ e.tag = "Ct"
              /\ Len(AnyFileEntry_path(e)) = 1
              /\ built[Base \o AnyFileEntry_path(e)].kind = "file"
              /\ e.file.path = AnyFileEntry_path(e)
        /\ \A i, j \in DOMAIN ret.val : \A k, l \in DOMAIN dir.entries :
              i < j /\ dir.entries[k] = ret.val[i].file /\ dir.entries[l] = ret.val[j].file
                  => k < l

\* the embedded tree holds two files at its root and one in a subdirectory
C4_Witness ==
    /\ CtCalled
    /\ Len(ret.val) = 2
    /\ Cardinality(AllFiles(dir.entries)) = 3

PathsOf(seq) == {AnyFileEntry_path(e) : e \in Elems(seq)}

\* C5: when the RtDir points at the directory the build captured and the
\* disk is as it was at build time, the two enumerations have the same set
\* of paths and the entries of equal path read the same bytes.
C5_SameViewWhenUnchanged ==
    /\ RtCalled /\ Resolve(ret.base) = Base
    /\ disk = built
    /\ Len(ct_calls) > 0
    => LET ct == ct_calls[Len(ct_calls)] IN
       /\ PathsOf(ret.val) = PathsOf(ct)
       /\ \A r \in Elems(ret.val) : \A c \in Elems(ct) :
             AnyFileEntry_path(r) = AnyFileEntry_path(c)
                 => /\ AnyFileEntry_read_bytes(r, disk).ok
                    /\ AnyFileEntry_read_bytes(r, disk) = AnyFileEntry_read_bytes(c, disk)

\* both directories were enumerated over an unchanged tree with a subdirectory
C5_Witness ==
    /\ RtCalled /\ Resolve(ret.base) = Base
    /\ disk = built /\ built[FileC].kind = "file"
    /\ Len(ct_calls) > 0
    /\ Len(ret.val) = 2

\* C6: whatever happened to the disk after the build, a CtFileEntry has no
\* absolute path, its read_bytes returns the bytes the file had when the
\* build ran, and two CtDir::file_entries calls return the same sequence.
C6_CtIsFrozen ==
    /\ entry.tag = "Ct" => ~AnyFileEntry_absolute_path(entry).some
    /\ ret.op = "read_bytes" /\ entry.tag = "Ct"
          => ret.res = OkBytes(built[Base \o AnyFileEntry_path(entry)].bytes)
    /\ Len(ct_calls) = 2 => ct_calls[1] = ct_calls[2]

\* a.txt was embedded, then overwritten on disk, and the embedded entry was
\* read after a second enumeration
C6_Witness ==
    /\ ret.op = "read_bytes" /\ entry.tag = "Ct"
    /\ AnyFileEntry_path(entry) = <<"a.txt">>
    /\ disk[FileA].kind = "file" /\ disk[FileA].bytes # built[FileA].bytes
    /\ Len(ct_calls) = 2

\* C7: a read through an RtFileEntry returns what the file at its absolute
\* path holds when the read is made, and an I/O error when there is no
\* readable file there.
C7_RtReadIsFresh ==
    ret.op \in {"read_bytes", "read_string"} /\ entry.tag = "Rt" =>
        LET n == NodeAt(disk, entry.absolute_path) IN
        IF n.kind = "file" /\ n.readable
        THEN IF ret.op = "read_bytes" THEN ret.res = OkBytes(n.bytes)
             ELSE \/ ret.res.ok /\ IsTextOf(ret.res.text, n.bytes)
                  \/ ret.res.err = "InvalidData"
        ELSE IsIoError(ret.res)

\* the file was overwritten after the entry was taken, and the read returned
\* bytes that differ from those of build time
C7_Witness ==
    /\ ret.op = "read_bytes" /\ entry.tag = "Rt" /\ stale
    /\ entry.absolute_path = FileA
    /\ ret.res.ok /\ ret.res.bytes # built[FileA].bytes

\* ---- properties of from_path ----
FromPathCalled == ret.op = "from_path"
BeginsWith(p, c) == \E k \in 0..Len(p) : SubSeq(p, 1, k) = c

\* C9: from_path(P) returns an entry whose absolute_path() is P and whose
\* path() is P without the prefix CWD when P begins with CWD and P itself
\* otherwise; without a current directory it returns an error and no entry.
C9_FromPathStripsCwd ==
    FromPathCalled =>
        IF cwd.some
        THEN /\ Len(ret.val) = 1 /\ ret.res.err = "none"
             /\ AnyFileEntry_absolute_path(ret.val[1]) = Some(ret.base)
             /\ BeginsWith(ret.base, cwd.val)
                    => cwd.val \o AnyFileEntry_path(ret.val[1]) = ret.base
             /\ ~BeginsWith(ret.base, cwd.val)
                    => AnyFileEntry_path(ret.val[1]) = ret.base
        ELSE ret.val = <<>> /\ IsIoError(ret.res)

\* the current directory is /u and the path /u/assets/a.txt was given
C9_Witness ==
    /\ FromPathCalled
    /\ cwd = Some(<<"/", "u">>)
    /\ ret.base = <<"/", "u", "assets", "a.txt">>
    /\ AnyFileEntry_path(ret.val[1]) = <<"assets", "a.txt">>

\* C10: every entry a constructor returns has a non-empty relative path.
C10_PathNeverEmpty ==
    ret.op \in {"ct_file_entries", "rt_file_entries", "from_path"} =>
        \A e \in Elems(ret.val) : AnyFileEntry_path(e) # <<>>

====
